---- MODULE Spec2Model ----
(***************************************************************************)
(* Model of the Generative AI FAQ chatbot: the Streamlit script app.py     *)
(* (one run of main() per UI event), the search gateway                    *)
(* cognitive_search.py and the generation gateway openai_helper.py.        *)
(*                                                                         *)
(* A text is a sequence of characters (one-character strings).  The two    *)
(* remote services are the environment: every response they can give is    *)
(* a nondeterministic input of the action that receives it.                *)
(***************************************************************************)
EXTENDS Integers, Sequences, FiniteSets, TLC

(* ------------------------------ bounds -------------------------------- *)

\* rows of data/faqs.csv
NumRows == 3
\* transcript length up to which the Send button is still pressed
MaxMessages == 4
\* browser sessions opened against the same remote index
MaxSessions == 2
\* lines of a completion's output (suggestion extraction)
MaxLines == 6
\* longest query handed to analyze_query_intent, in characters
MaxQueryLen == 3
\* longest completion output handed to json.loads, in characters
MaxJsonLen == 3

(* ------------------------- program constants --------------------------- *)

\* cognitive_search.py:130 sets 1000; scaled so that NumRows rows span
\* more than one batch
batch_size == 2
\* app.py:320, search_faqs(user_input, top=3)
top == 3
\* openai_helper.py:220, suggestions[:5]
MaxSuggestions == 5
\* list(topics)[:5]
MaxTopics == 5

\* Python's None, as a value distinct from every text
None == <<"<None>">>

\* openai_helper.py:94
APOLOGY == <<"I apologize, but I encountered an error while generating your answer. Please try again or rephrase your question.">>

(* ------------------------------- text ---------------------------------- *)

Whitespace == {" ", "\t", "\n"}

RECURSIVE lstrip(_)
lstrip(s) ==
    IF s = <<>> THEN <<>>
    ELSE IF Head(s) \in Whitespace THEN lstrip(Tail(s)) ELSE s

RECURSIVE rstrip(_)
rstrip(s) ==
    IF s = <<>> THEN <<>>
    ELSE IF s[Len(s)] \in Whitespace THEN rstrip(SubSeq(s, 1, Len(s) - 1)) ELSE s

\* str.strip()
strip(s) == rstrip(lstrip(s))

\* str.startswith(prefix)
startswith(s, prefix) ==
    /\ Len(s) >= Len(prefix)
    /\ SubSeq(s, 1, Len(prefix)) = prefix

\* str.startswith(tuple of prefixes)
startswith_any(s, prefixes) == \E p \in prefixes : startswith(s, p)

\* str.split(sep) for a one-character sep: the pieces between separators,
\* empty pieces kept
RECURSIVE split_from(_, _, _, _)
split_from(s, sep, i, cur) ==
    IF i > Len(s) THEN <<cur>>
    ELSE IF s[i] = sep THEN <<cur>> \o split_from(s, sep, i + 1, <<>>)
    ELSE split_from(s, sep, i + 1, Append(cur, s[i]))

split(s, sep) == split_from(s, sep, 1, <<>>)

\* sep.join(parts)
RECURSIVE join(_, _)
join(sep, parts) ==
    IF parts = <<>> THEN <<>>
    ELSE IF Len(parts) = 1 THEN parts[1]
    ELSE parts[1] \o <<sep>> \o join(sep, Tail(parts))

\* list[:n]
take(s, n) == SubSeq(s, 1, IF Len(s) < n THEN Len(s) ELSE n)

DigitChars == <<"0", "1", "2", "3", "4", "5", "6", "7", "8", "9">>
\* str(n) of a natural number
RECURSIVE Decimal(_)
Decimal(n) ==
    IF n < 10 THEN <<DigitChars[n + 1]>>
    ELSE Decimal(n \div 10) \o <<DigitChars[(n % 10) + 1]>>

\* f"{score:.3f}" of a score held in ten-thousandths: rounded to the
\* nearest thousandth, written with exactly three decimals
format_3f(score) ==
    LET m == (score + 5) \div 10
    IN  Decimal(m \div 1000) \o <<".">>
        \o <<DigitChars[((m \div 100) % 10) + 1], DigitChars[((m \div 10) % 10) + 1],
              DigitChars[(m % 10) + 1]>>

IsPrefix(s, t) == Len(s) <= Len(t) /\ SubSeq(t, 1, Len(s)) = s

RECURSIVE SeqsUpTo(_, _)
SeqsUpTo(S, n) ==
    IF n = 0 THEN {<<>>}
    ELSE LET shorter == SeqsUpTo(S, n - 1)
         IN  shorter \cup {Append(q, x) : q \in {r \in shorter : Len(r) = n - 1}, x \in S}

\* sequences of distinct elements of S, of length at most n
DistinctSeqs(S, n) ==
    {q \in SeqsUpTo(S, n) : \A i, j \in 1..Len(q) : i # j => q[i] # q[j]}

(* ------------------------------- state --------------------------------- *)

VARIABLES
    env,            \* environment variables that are set and non-empty
    csv_exists,     \* os.path.exists("data/faqs.csv")
    index,          \* the remote index: document id -> document
    session,        \* number of the browser session (a reload opens a new one)
    search_helper,  \* st.session_state.search_helper
    openai_helper,  \* st.session_state.openai_helper
    index_created,  \* st.session_state.index_created
    messages,       \* st.session_state.messages, the transcript
    user_input,     \* the text area's value in this run
    send_button,    \* st.button("Send") in this run
    clear_button,   \* st.button("Clear Conversation") in this run
    pc,             \* where the script run is
    batch_i,        \* i of the upload loop
    failed_docs,    \* documents reported failed in this upload pass (logged)
    relevant_faqs,  \* the turn's candidates
    suggestions,    \* the turn's suggestions
    inflight,       \* remote calls issued and not yet returned
    calls,          \* remote calls issued since the last UI event
    last,           \* the response the program handled last
    clicked,        \* the last UI event
    transcript0,    \* the transcript when the last UI event happened
    full_uploads,   \* upload passes that returned True with no document failed
    request,        \* what the remote call in flight was given
    submitted,      \* the batches submitted in this upload pass, in order
    analysis,       \* what analyze_query_intent returned, None before it has
    writers,        \* concurrent uploads: where each writer's upload pass is
    write_log       \* concurrent uploads: <<writer, ids accepted>> per batch answered

vars ==
    << env, csv_exists, index, session, search_helper, openai_helper,
       index_created, messages, user_input, send_button, clear_button, pc,
       batch_i, failed_docs, relevant_faqs, suggestions, inflight, calls,
       last, clicked, transcript0, full_uploads, request, submitted,
       analysis, writers, write_log >>

(* -------------------- configuration and seed data ---------------------- *)

\* the environment variables the program reads
SearchRequired == {"AZURE_SEARCH_ENDPOINT", "AZURE_SEARCH_KEY"}
OpenAIRequired ==
    {"AZURE_OPENAI_ENDPOINT", "AZURE_OPENAI_KEY", "AZURE_OPENAI_DEPLOYMENT_NAME"}
Optional == {"AZURE_SEARCH_INDEX_NAME", "AZURE_OPENAI_API_VERSION"}
AllVars == SearchRequired \cup OpenAIRequired \cup Optional

\* the configurations explored: everything set, or exactly one variable
\* unset (or set to the empty string, which os.getenv returns as falsy)
Environments == {AllVars} \cup {AllVars \ {v} : v \in AllVars}

\* the tags column of row k of data/faqs.csv: a comma-joined string, or NaN
\* (None) for an empty cell
csv_tags(k) ==
    CASE k = 0 -> <<"s", ",", "p">>
      [] k = 1 -> <<"p", ",", "b">>
      [] OTHER -> None

\* df.iterrows() yields (index, row) for index 0 .. len(df) - 1
RowIndex == 0 .. (NumRows - 1)

\* variant: ids numbered on from the documents already stored
faq_id_by_count(index_) == <<"faq_", index_ + Cardinality(DOMAIN index)>>
\* "id": f"faq_{index}"
faq_id(index_) == <<"faq_", index_>>

\* the document prepared from one row (created_at, a wall-clock stamp, is
\* left out: nothing reads it back)
document(index_) ==
    [ id       |-> faq_id(index_),
      question |-> <<"Q">> \o Decimal(index_),
      answer   |-> <<"A">> \o Decimal(index_),
      tags     |-> IF csv_tags(index_) # None THEN split(csv_tags(index_), ",") ELSE <<>> ]

\* documents, in row order
documents == [n \in 1..NumRows |-> document(n - 1)]

\* variant: the slice runs one document past its end
batch_inclusive(i) ==
    SubSeq(documents, i + 1, IF i + batch_size + 1 < Len(documents)
                              THEN i + batch_size + 1 ELSE Len(documents))
\* batch = documents[i:i + batch_size]
batch(i) ==
    SubSeq(documents, i + 1, IF i + batch_size < Len(documents)
                              THEN i + batch_size ELSE Len(documents))

create_search_helper(env_) ==
    IF ~(SearchRequired \subseteq env_) THEN None
    ELSE <<"AzureCognitiveSearchHelper",
           IF "AZURE_SEARCH_INDEX_NAME" \in env_ THEN "custom-index" ELSE "faq-index">>

create_openai_helper(env_) ==
    IF ~(OpenAIRequired \subseteq env_) THEN None
    ELSE <<"AzureOpenAIHelper",
           IF "AZURE_OPENAI_API_VERSION" \in env_ THEN "custom-version"
           ELSE "2023-12-01-preview">>

NoResponse == [op |-> "none", resp |-> <<>>]
NoRequest == [op |-> "none"]

\* initialize_session_state on a fresh session
initialize_session_state ==
    /\ messages = <<>>
    /\ search_helper = None
    /\ openai_helper = None
    /\ index_created = FALSE

Init ==
    /\ env \in Environments
    /\ csv_exists \in BOOLEAN
    /\ (env # AllVars => csv_exists)
    /\ index = [id \in {} |-> <<>>]
    /\ session = 1
    /\ initialize_session_state
    /\ user_input = <<>>
    /\ send_button = FALSE
    /\ clear_button = FALSE
    /\ pc = "Start"
    /\ batch_i = 0
    /\ failed_docs = 0
    /\ relevant_faqs = <<>>
    /\ suggestions = <<>>
    /\ inflight = {}
    /\ calls = <<>>
    /\ last = NoResponse
    /\ clicked = "load"
    /\ transcript0 = <<>>
    /\ full_uploads = 0
    /\ request = NoRequest
    /\ submitted = <<>>
    /\ analysis = None
    /\ writers = <<>>
    /\ write_log = <<>>

(* --------------------------- remote calls ------------------------------ *)

\* a blocking call: issued, then awaited
issued(op) == inflight \cup {op}
\* variant: the caller goes on without awaiting the call
returned_unawaited(op) == inflight
returned(op) == inflight \ {op}

\* SearchClient.upload_documents(batch): the service either refuses the
\* request (the call raises) or answers per document; a document it accepts
\* replaces the one stored under the same id
UploadResponses(b) ==
    {[raises |-> TRUE, rejected |-> {}]}
    \cup {[raises |-> FALSE, rejected |-> R] : R \in SUBSET {b[n].id : n \in 1..Len(b)}}

\* variant: a document already stored under the id is kept
upload_documents_keeping(b, resp) ==
    LET accepted == {n \in 1..Len(b) : b[n].id \notin resp.rejected}
        ids == {b[n].id : n \in accepted}
    IN  IF resp.raises THEN index
        ELSE [id \in DOMAIN index \cup ids |->
                 IF id \in DOMAIN index THEN index[id]
                 ELSE b[CHOOSE n \in accepted : b[n].id = id]]
\* the index once the service has answered resp to the batch b
upload_documents(b, resp) ==
    LET accepted == {n \in 1..Len(b) : b[n].id \notin resp.rejected}
        ids == {b[n].id : n \in accepted}
    IN  IF resp.raises THEN index
        ELSE [id \in DOMAIN index \cup ids |->
                 IF id \in ids THEN b[CHOOSE n \in accepted : b[n].id = id]
                 ELSE index[id]]

\* @search.score of a stored document, in ten-thousandths (0.4554, 0.8126);
\* semantic ranking orders the results by its own reranker score, so the
\* scores of a result list need not descend
search_score(id) == IF id[2] % 2 = 0 THEN 4554 ELSE 8126

\* one result of SearchClient.search
search_result(id) ==
    [ id       |-> id,
      question |-> index[id].question,
      answer   |-> index[id].answer,
      tags     |-> index[id].tags,
      score    |-> search_score(id) ]

\* SearchClient.search(..., top=top): the call raises, or it returns an
\* iterator over at most top stored documents in the service's order, which
\* may itself raise after yielding fail_after results (-1: it never raises)
SearchResponses ==
    {[raises |-> TRUE, results |-> <<>>, fail_after |-> -1]}
    \cup {[raises |-> FALSE, results |-> [n \in 1..Len(q) |-> search_result(q[n])],
           fail_after |-> f] :
            <<q, f>> \in {qf \in DistinctSeqs(DOMAIN index, top) \X (-1 .. top) :
                             qf[2] <= Len(qf[1])}}

\* client.chat.completions.create: the call raises, or the response has no
\* choice (choices[0] raises), or it has one whose message.content is a
\* text or None (the content field is optional)
Completion(texts) ==
    {[raises |-> TRUE, choices |-> 0, content |-> None],
     [raises |-> FALSE, choices |-> 0, content |-> None]}
    \cup {[raises |-> FALSE, choices |-> 1, content |-> c] : c \in texts \cup {None}}

(* ------------------------ cognitive_search.py -------------------------- *)

\* variant: True whatever create_or_update_index did
create_index_always(raises) == TRUE
\* create_index: True unless create_or_update_index raises
create_index(raises) == ~raises

\* variant: a rejected document fails the upload
after_batch_strict(resp, i) ==
    IF resp.raises \/ resp.rejected # {} THEN "return False"
    ELSE IF i + batch_size < Len(documents) THEN "next batch"
    ELSE "return True"
\* upload_faqs_from_csv after the upload of the batch at offset i answered
after_batch(resp, i) ==
    IF resp.raises THEN "return False"
    ELSE IF i + batch_size < Len(documents) THEN "next batch"
    ELSE "return True"

\* a list sorted by descending score (stable)
RECURSIVE by_score(_)
by_score(docs) ==
    IF docs = <<>> THEN <<>>
    ELSE LET rest == by_score(Tail(docs))
             before == SelectSeq(rest, LAMBDA d : d.score > Head(docs).score)
             after == SelectSeq(rest, LAMBDA d : d.score <= Head(docs).score)
         IN  before \o <<Head(docs)>> \o after

\* variant: the results re-sorted locally by score
search_faqs_sorted(resp) ==
    IF resp.raises \/ resp.fail_after >= 0 THEN <<>>
    ELSE by_score(resp.results)
\* search_faqs
search_faqs(resp) ==
    IF resp.raises \/ resp.fail_after >= 0 THEN <<>>
    ELSE [n \in 1..Len(resp.results) |->
             [ id       |-> resp.results[n].id,
               question |-> resp.results[n].question,
               answer   |-> resp.results[n].answer,
               tags     |-> resp.results[n].tags,
               score    |-> resp.results[n].score ]]

(* -------------------------- openai_helper.py --------------------------- *)

\* variant: only the call itself is guarded, not the reading of its response
generate_answer_unguarded(resp) ==
    IF resp.raises THEN APOLOGY
    ELSE IF resp.choices = 0 THEN None
    ELSE resp.content
\* generate_answer
generate_answer(resp) ==
    IF resp.raises \/ resp.choices = 0 THEN APOLOGY
    ELSE resp.content

\* one block of the context: rank i, score, question, answer, tags
faq_context(i, faq) ==
    LET tags_str == IF faq.tags # <<>> THEN join(", ", faq.tags) ELSE <<"No tags">>
    IN  <<"FAQ ">> \o Decimal(i) \o <<" (Relevance Score: ">> \o format_3f(faq.score)
        \o <<"):", "\n", "Question: ">> \o faq.question
        \o <<"\n", "Answer: ">> \o faq.answer
        \o <<"\n", "Tags: ">> \o tags_str
        \o <<"\n", "---">>

\* variant: the blocks in descending order of score
_prepare_context_sorted(faqs) ==
    join("\n", [i \in 1..Len(faqs) |-> faq_context(i, by_score(faqs)[i])])
\* _prepare_context: "\n".join of one block per candidate, in list order
_prepare_context(faqs) ==
    join("\n", [i \in 1..Len(faqs) |-> faq_context(i, faqs[i])])

\* topics = set(); topics.update(faq["tags"]) for each candidate
tag_union(faqs) ==
    UNION {{faqs[n].tags[k] : k \in 1..Len(faqs[n].tags)} :
              n \in 1..Len(faqs)}

\* variant: without the [:5]
topic_choices_uncapped(faqs) == {tag_union(faqs)}
\* list(topics)[:5]: a set is listed in hash order, which the order of
\* insertion does not determine, so any MaxTopics of the tags can be the
\* ones kept
topic_choices(faqs) ==
    LET topics == tag_union(faqs)
        n == IF Cardinality(topics) < MaxTopics THEN Cardinality(topics) ELSE MaxTopics
    IN  {T \in SUBSET topics : Cardinality(T) = n}

\* query.split(): the maximal runs of non-whitespace characters
RECURSIVE split_whitespace_from(_, _, _)
split_whitespace_from(s, i, cur) ==
    IF i > Len(s) THEN (IF cur = <<>> THEN <<>> ELSE <<cur>>)
    ELSE IF s[i] \in Whitespace
         THEN (IF cur = <<>> THEN <<>> ELSE <<cur>>) \o split_whitespace_from(s, i + 1, <<>>)
    ELSE split_whitespace_from(s, i + 1, Append(cur, s[i]))

split_whitespace(s) == split_whitespace_from(s, 1, <<>>)

\* json.loads on the texts the model draws: an object without members or a
\* number, with whitespace allowed around the value and inside the braces;
\* anything else, None included, raises
json_loads(text) ==
    LET t == strip(text)
    IN  IF text = None \/ t = <<>> THEN [ok |-> FALSE, value |-> None]
        ELSE IF /\ Len(t) >= 2 /\ t[1] = "{" /\ t[Len(t)] = "}"
                /\ \A n \in 2..(Len(t) - 1) : t[n] \in Whitespace
             THEN [ok |-> TRUE, value |-> <<"object">>]
        ELSE IF /\ \A n \in 1..Len(t) : t[n] \in {"0", "1", "2", "3", "4", "5", "6", "7", "8", "9"}
                /\ (Len(t) = 1 \/ t[1] # "0")
             THEN [ok |-> TRUE, value |-> <<"number">> \o t]
        ELSE [ok |-> FALSE, value |-> None]

\* the object the except branch returns
default_analysis(query) ==
    [ intent     |-> "general_inquiry",
      category   |-> "general",
      keywords   |-> split_whitespace(query),
      complexity |-> "medium" ]

\* variant: only the call is guarded, json.loads raises to the caller
analyze_query_intent_unguarded(query, resp) ==
    IF resp.raises \/ resp.choices = 0
    THEN [raised |-> FALSE, value |-> default_analysis(query)]
    ELSE IF ~json_loads(resp.content).ok THEN [raised |-> TRUE, value |-> None]
    ELSE [raised |-> FALSE, value |-> json_loads(resp.content).value]
\* analyze_query_intent: what the call gives its caller
analyze_query_intent(query, resp) ==
    IF resp.raises \/ resp.choices = 0 \/ ~json_loads(resp.content).ok
    THEN [raised |-> FALSE, value |-> default_analysis(query)]
    ELSE [raised |-> FALSE, value |-> json_loads(resp.content).value]

ListMarkers == {<<"1", ".">>, <<"2", ".">>, <<"3", ".">>, <<"4", ".">>, <<"5", ".">>,
                <<"-">>, <<"*">>}

\* [s.strip() for s in lines if s.strip() and not s.startswith(markers)]
RECURSIVE plain_lines(_)
plain_lines(lines) ==
    IF lines = <<>> THEN <<>>
    ELSE (IF strip(Head(lines)) # <<>> /\ ~startswith_any(Head(lines), ListMarkers)
          THEN <<strip(Head(lines))>> ELSE <<>>) \o plain_lines(Tail(lines))

\* variant: without the [:5]
suggest_related_questions_uncapped(resp) ==
    IF resp.raises \/ resp.choices = 0 \/ resp.content = None THEN <<>>
    ELSE plain_lines(split(resp.content, "\n"))
\* suggest_related_questions
suggest_related_questions(resp) ==
    IF resp.raises \/ resp.choices = 0 \/ resp.content = None THEN <<>>
    ELSE take(plain_lines(split(resp.content, "\n")), MaxSuggestions)

(* ------------------------------- app.py -------------------------------- *)

\* variant: a turn without candidates skips the generation call
next_in_turn_skipping(p) ==
    CASE p = "Retrieving" ->
             IF relevant_faqs' = <<>> THEN "SuggestingFollowups" ELSE "Generating"
      [] p = "Generating" -> "SuggestingFollowups"
      [] p = "SuggestingFollowups" -> "Start"
\* where the turn goes once the call of p has returned, whatever it
\* returned: search_faqs, generate_answer, suggest_related_questions, then
\* st.rerun() starts the script over
next_in_turn(p) ==
    CASE p = "Retrieving" -> "Generating"
      [] p = "Generating" -> "SuggestingFollowups"
      [] p = "SuggestingFollowups" -> "Start"

\* variant: a failed setup starts the script over
on_setup_failure_retry == "Start"
\* setup_azure_services returned False: main reports it and returns, the
\* run is over
on_setup_failure == "Halted"

\* what the user can type into the text area
Inputs == {<<>>, <<" ", "\n">>, <<"h", "i">>, <<" ", "q", " ">>}

\* what the completion model can write as an answer
AnswerTexts == {<<"O", "K">>}

\* what the completion model can write as suggestions
SuggestionTexts ==
    { <<"1", ".", "X", "\n", "-", "S", "\n", "Y">>,
      <<"a", "\n", "b", "\n", "c", "\n", "d", "\n", "e", "\n", "f">>,
      <<>> }

\* variant: the input tested without strip()
turn_triggered_unstripped(send, input) == send /\ input # <<>>
\* the condition of "if send_button and user_input.strip():"
turn_triggered(send, input) == send /\ strip(input) # <<>>

\* variant: the trimmed input stored
user_turn_stripped(input) == [role |-> "user", content |-> strip(input)]
\* the turn appended for the user's input, as typed
user_turn(input) == [role |-> "user", content |-> input]

assistant_turn(ai_response) == [role |-> "assistant", content |-> ai_response]

\* variant: only the user's turns are removed
cleared_of_user_turns(msgs) == SelectSeq(msgs, LAMBDA m : m.role = "assistant")
\* variant: the last turn survives the clearing
cleared_keeping_last(msgs) == IF msgs = <<>> THEN <<>> ELSE <<msgs[Len(msgs)]>>
\* st.session_state.messages after "Clear Conversation" was pressed
cleared(msgs) == <<>>

\* A script run starts: initialize_session_state finds the session's state
\* in place, setup_azure_services creates the helpers that are missing and,
\* while the index is not marked created, calls create_index.
RunScript ==
    /\ pc = "Start"
    /\ LET sh == IF search_helper = None THEN create_search_helper(env)
                 ELSE search_helper
           oh == IF sh = None THEN openai_helper
                 ELSE IF openai_helper = None THEN create_openai_helper(env)
                 ELSE openai_helper
       IN  /\ search_helper' = sh
           /\ openai_helper' = oh
           /\ IF sh = None \/ oh = None
              THEN /\ pc' = "Halted"
                   /\ UNCHANGED <<inflight, calls, request>>
              ELSE IF ~index_created
              THEN /\ pc' = "CreateIndex"
                   /\ inflight' = issued("create_index")
                   /\ calls' = Append(calls, "create_index")
                   /\ request' = [op |-> "create_index", index_name |-> sh[2]]
              ELSE /\ pc' = "Body"
                   /\ UNCHANGED <<inflight, calls, request>>
    /\ UNCHANGED << analysis, writers, write_log, env, csv_exists, index, session, index_created, messages,
                    user_input, send_button, clear_button, batch_i, failed_docs,
                    relevant_faqs, suggestions, last, clicked, transcript0,
                    full_uploads, submitted >>

\* create_index answers; on success and with the seed file present,
\* upload_faqs_from_csv reads it and submits the first batch.
CreateIndexReturns ==
    /\ pc = "CreateIndex"
    /\ \E raises \in BOOLEAN :
        /\ last' = [op |-> "create_index", resp |-> raises]
        /\ IF create_index(raises) /\ csv_exists /\ Len(documents) > 0
           THEN /\ pc' = "Upload"
                /\ inflight' = returned("create_index") \cup {"upload"}
                /\ calls' = Append(calls, "upload")
                /\ request' = [op |-> "upload", batch |-> batch(0)]
                /\ submitted' = <<batch(0)>>
           ELSE /\ pc' = on_setup_failure
                /\ inflight' = returned("create_index")
                /\ calls' = calls
                /\ request' = NoRequest
                /\ submitted' = <<>>
    /\ batch_i' = 0
    /\ failed_docs' = 0
    /\ UNCHANGED << analysis, writers, write_log, env, csv_exists, index, session, search_helper, openai_helper,
                    index_created, messages, user_input, send_button,
                    clear_button, relevant_faqs, suggestions, clicked,
                    transcript0, full_uploads >>

\* upload_documents answers for the batch at offset batch_i.
UploadBatchReturns ==
    /\ pc = "Upload"
    /\ \E resp \in UploadResponses(batch(batch_i)) :
        LET failed == failed_docs + Cardinality(resp.rejected)
            next == after_batch(resp, batch_i)
        IN  /\ last' = [op |-> "upload", resp |-> resp]
            /\ index' = upload_documents(batch(batch_i), resp)
            /\ failed_docs' = failed
            /\ CASE next = "next batch" ->
                      /\ batch_i' = batch_i + batch_size
                      /\ pc' = "Upload"
                      /\ inflight' = returned("upload") \cup {"upload"}
                      /\ calls' = Append(calls, "upload")
                      /\ request' = [op |-> "upload", batch |-> batch(batch_i + batch_size)]
                      /\ submitted' = Append(submitted, batch(batch_i + batch_size))
                      /\ UNCHANGED <<index_created, full_uploads>>
                 [] next = "return True" ->
                      /\ index_created' = TRUE
                      /\ full_uploads' = full_uploads + (IF failed = 0 THEN 1 ELSE 0)
                      /\ pc' = "Body"
                      /\ inflight' = returned("upload")
                      /\ request' = NoRequest
                      /\ UNCHANGED <<batch_i, calls, submitted>>
                 [] OTHER ->
                      /\ pc' = on_setup_failure
                      /\ inflight' = returned("upload")
                      /\ request' = NoRequest
                      /\ UNCHANGED <<batch_i, calls, index_created, full_uploads,
                                      submitted>>
    /\ UNCHANGED << analysis, writers, write_log, env, csv_exists, session, search_helper, openai_helper,
                    messages, user_input, send_button, clear_button,
                    relevant_faqs, suggestions, clicked, transcript0 >>

\* setup_azure_services returned True: the sidebar reads the index
\* statistics, then the Clear button or the Send button is acted on.
RunBody ==
    /\ pc = "Body"
    /\ IF clear_button
       THEN /\ messages' = cleared(messages)
            /\ pc' = "Start"
            /\ clear_button' = FALSE
            /\ send_button' = FALSE
            /\ inflight' = inflight
            /\ calls' = Append(calls, "stats")
            /\ request' = request
       ELSE IF turn_triggered(send_button, user_input)
       THEN /\ messages' = Append(messages, user_turn(user_input))
            /\ pc' = "Retrieving"
            /\ inflight' = issued("search")
            /\ calls' = calls \o <<"stats", "search">>
            /\ request' = [op |-> "search", query |-> user_input, top |-> top]
            /\ UNCHANGED <<clear_button, send_button>>
       ELSE /\ pc' = "Idle"
            /\ inflight' = inflight
            /\ calls' = Append(calls, "stats")
            /\ UNCHANGED <<messages, clear_button, send_button, request>>
    /\ UNCHANGED << analysis, writers, write_log, env, csv_exists, index, session, search_helper, openai_helper,
                    index_created, user_input, batch_i, failed_docs,
                    relevant_faqs, suggestions, last, clicked, transcript0,
                    full_uploads, submitted >>

\* search_faqs returns; generate_answer is called with its result.
SearchReturns ==
    /\ pc = "Retrieving"
    /\ \E resp \in SearchResponses :
        /\ last' = [op |-> "search", resp |-> resp]
        /\ relevant_faqs' = search_faqs(resp)
        /\ request' = [op |-> "generate", query |-> user_input,
                       context |-> _prepare_context(search_faqs(resp))]
    /\ pc' = next_in_turn(pc)
    /\ inflight' = returned("search") \cup {"generate"}
    /\ calls' = Append(calls, "generate")
    /\ UNCHANGED << analysis, writers, write_log, env, csv_exists, index, session, search_helper, openai_helper,
                    index_created, messages, user_input, send_button,
                    clear_button, batch_i, failed_docs, suggestions, clicked,
                    transcript0, full_uploads, submitted >>

\* generate_answer returns; the assistant's turn is appended and
\* suggest_related_questions is called.
GenerateReturns ==
    /\ pc = "Generating"
    /\ \E resp \in Completion(AnswerTexts) :
        /\ last' = [op |-> "generate", resp |-> resp]
        /\ messages' = Append(messages, assistant_turn(generate_answer(resp)))
    /\ \E topics \in topic_choices(relevant_faqs) :
        request' = [op |-> "suggest", query |-> user_input, topics |-> topics]
    /\ pc' = next_in_turn(pc)
    /\ inflight' = returned("generate") \cup {"suggest"}
    /\ calls' = Append(calls, "suggest")
    /\ UNCHANGED << analysis, writers, write_log, env, csv_exists, index, session, search_helper, openai_helper,
                    index_created, user_input, send_button, clear_button,
                    batch_i, failed_docs, relevant_faqs, suggestions, clicked,
                    transcript0, full_uploads, submitted >>

\* suggest_related_questions returns; the suggestions are shown and
\* st.rerun() starts the next run, in which no button is pressed.
SuggestReturnsWith(resp) ==
    /\ pc = "SuggestingFollowups"
    /\ last' = [op |-> "suggest", resp |-> resp]
    /\ suggestions' = suggest_related_questions(resp)
    /\ relevant_faqs' = <<>>
    /\ pc' = next_in_turn(pc)
    /\ send_button' = FALSE
    /\ inflight' = returned("suggest")
    /\ request' = NoRequest
    /\ UNCHANGED << analysis, writers, write_log, env, csv_exists, index, session, search_helper, openai_helper,
                    index_created, messages, user_input, clear_button, batch_i,
                    failed_docs, calls, clicked, transcript0, full_uploads,
                    submitted >>

SuggestReturns == \E resp \in Completion(SuggestionTexts) : SuggestReturnsWith(resp)

\* a UI event starts a script run
Event(kind, input, send, clear) ==
    /\ clicked' = kind
    /\ user_input' = input
    /\ send_button' = send
    /\ clear_button' = clear
    /\ transcript0' = messages
    /\ calls' = <<>>
    /\ last' = NoResponse
    /\ relevant_faqs' = <<>>
    /\ suggestions' = <<>>
    /\ request' = NoRequest
    /\ pc' = "Start"

\* the user presses Send with some text in the text area
ClickSend ==
    /\ pc = "Idle"
    /\ Len(messages) + 2 <= MaxMessages
    /\ \E input \in Inputs : Event("send", input, TRUE, FALSE)
    /\ UNCHANGED << analysis, writers, write_log, env, csv_exists, index, session, search_helper, openai_helper,
                    index_created, messages, batch_i, failed_docs, inflight,
                    full_uploads, submitted >>

\* the user presses Clear Conversation
ClickClear ==
    /\ pc = "Idle"
    /\ Event("clear", user_input, FALSE, TRUE)
    /\ UNCHANGED << analysis, writers, write_log, env, csv_exists, index, session, search_helper, openai_helper,
                    index_created, messages, batch_i, failed_docs, inflight,
                    full_uploads, submitted >>

\* the user reruns the script from Streamlit's menu (also possible on the
\* page that setup_azure_services left without widgets)
Rerun ==
    /\ pc \in {"Idle", "Halted"}
    /\ Event("rerun", user_input, FALSE, FALSE)
    /\ UNCHANGED << analysis, writers, write_log, env, csv_exists, index, session, search_helper, openai_helper,
                    index_created, messages, batch_i, failed_docs, inflight,
                    full_uploads, submitted >>

\* the user reloads the page: a new session with a fresh session state,
\* against the same remote index
NewSession ==
    /\ pc \in {"Idle", "Halted"}
    /\ session < MaxSessions
    /\ session' = session + 1
    /\ messages' = <<>>
    /\ search_helper' = None
    /\ openai_helper' = None
    /\ index_created' = FALSE
    /\ clicked' = "load"
    /\ user_input' = <<>>
    /\ send_button' = FALSE
    /\ clear_button' = FALSE
    /\ transcript0' = <<>>
    /\ calls' = <<>>
    /\ last' = NoResponse
    /\ relevant_faqs' = <<>>
    /\ suggestions' = <<>>
    /\ request' = NoRequest
    /\ pc' = "Start"
    /\ UNCHANGED << analysis, writers, write_log, env, csv_exists, index, batch_i, failed_docs, inflight,
                    full_uploads, submitted >>

Next ==
    \/ RunScript
    \/ CreateIndexReturns
    \/ UploadBatchReturns
    \/ RunBody
    \/ SearchReturns
    \/ GenerateReturns
    \/ SuggestReturns
    \/ ClickSend
    \/ ClickClear
    \/ Rerun
    \/ NewSession

Spec == Init /\ [][Next]_vars

(* ---------------- suggestion extraction on every output ---------------- *)

\* the lines a completion's output is made of
SuggestionLines == {<<"Y">>, <<"1", ".", "X">>, <<" ", "-", "Z">>, <<"6", ".", "W">>, <<>>}

\* every output of at most MaxLines lines
WideSuggestionTexts ==
    {join("\n", lines) : lines \in SeqsUpTo(SuggestionLines, MaxLines)}

\* a session in which suggest_related_questions has just been called: set
\* up, one turn under way, the answer appended
InitSuggest ==
    /\ env = AllVars
    /\ csv_exists = TRUE
    /\ index = [id \in {faq_id(k) : k \in RowIndex} |->
                   document(CHOOSE k \in RowIndex : faq_id(k) = id)]
    /\ session = 1
    /\ search_helper = create_search_helper(AllVars)
    /\ openai_helper = create_openai_helper(AllVars)
    /\ index_created = TRUE
    /\ user_input = <<"h", "i">>
    /\ messages = <<user_turn(user_input), assistant_turn(APOLOGY)>>
    /\ send_button = TRUE
    /\ clear_button = FALSE
    /\ pc = "SuggestingFollowups"
    /\ batch_i = 0
    /\ failed_docs = 0
    /\ relevant_faqs = <<>>
    /\ suggestions = <<>>
    /\ inflight = {"suggest"}
    /\ calls = <<"stats", "search", "generate", "suggest">>
    /\ last = [op |-> "generate",
               resp |-> [raises |-> TRUE, choices |-> 0, content |-> None]]
    /\ clicked = "send"
    /\ transcript0 = <<>>
    /\ full_uploads = 1
    /\ request = [op |-> "suggest", query |-> user_input, topics |-> {}]
    /\ submitted = <<>>
    /\ analysis = None
    /\ writers = <<>>
    /\ write_log = <<>>

NextSuggest ==
    /\ pc = "SuggestingFollowups"
    /\ \E resp \in Completion(WideSuggestionTexts) : SuggestReturnsWith(resp)

SpecSuggest == InitSuggest /\ [][NextSuggest]_vars

(* ------------------- the prompts of one turn, any tags ----------------- *)

\* tag lists a stored document can carry
StoredTagLists ==
    { << <<"s">>, <<"p">> >>, << <<"p">>, <<"b">> >>, << <<"t">>, <<"u">>, <<"v">> >>, <<>> }

\* a session whose first turn has just issued its search, over an index
\* whose documents carry any of the tag lists
InitPrompt ==
    /\ env = AllVars
    /\ csv_exists = TRUE
    /\ \E tags \in [RowIndex -> StoredTagLists] :
        index = [id \in {faq_id(k) : k \in RowIndex} |->
                    LET k == CHOOSE k \in RowIndex : faq_id(k) = id
                    IN  [document(k) EXCEPT !.tags = tags[k]]]
    /\ session = 1
    /\ search_helper = create_search_helper(AllVars)
    /\ openai_helper = create_openai_helper(AllVars)
    /\ index_created = TRUE
    /\ user_input = <<"h", "i">>
    /\ messages = <<user_turn(user_input)>>
    /\ send_button = TRUE
    /\ clear_button = FALSE
    /\ pc = "Retrieving"
    /\ batch_i = 0
    /\ failed_docs = 0
    /\ relevant_faqs = <<>>
    /\ suggestions = <<>>
    /\ inflight = {"search"}
    /\ calls = <<"stats", "search">>
    /\ last = NoResponse
    /\ clicked = "send"
    /\ transcript0 = <<>>
    /\ full_uploads = 1
    /\ request = [op |-> "search", query |-> user_input, top |-> top]
    /\ submitted = <<>>
    /\ analysis = None
    /\ writers = <<>>
    /\ write_log = <<>>

NextPrompt ==
    \/ SearchReturns
    \/ GenerateReturns

SpecPrompt == InitPrompt /\ [][NextPrompt]_vars

(* --------------------------- setup_index.py ---------------------------- *)

\* required_vars of the script
required_vars ==
    {"AZURE_SEARCH_ENDPOINT", "AZURE_SEARCH_KEY", "AZURE_SEARCH_INDEX_NAME"}

\* the script is started, under any environment, over an index that is
\* empty or already holds the seed documents
InitSetupIndex ==
    /\ env \in Environments
    /\ csv_exists \in BOOLEAN
    /\ index \in {[id \in {} |-> <<>>],
                  [id \in {faq_id(k) : k \in RowIndex} |->
                      document(CHOOSE k \in RowIndex : faq_id(k) = id)]}
    /\ session = 1
    /\ initialize_session_state
    /\ user_input = <<>>
    /\ send_button = FALSE
    /\ clear_button = FALSE
    /\ pc = "ScriptStart"
    /\ batch_i = 0
    /\ failed_docs = 0
    /\ relevant_faqs = <<>>
    /\ suggestions = <<>>
    /\ inflight = {}
    /\ calls = <<>>
    /\ last = NoResponse
    /\ clicked = "load"
    /\ transcript0 = <<>>
    /\ full_uploads = 0
    /\ request = NoRequest
    /\ submitted = <<>>
    /\ analysis = None
    /\ writers = <<>>
    /\ write_log = <<>>

\* main up to its first remote call: the variable check, the helper, then
\* create_index is issued
SetupIndexMain ==
    /\ pc = "ScriptStart"
    /\ LET missing_vars == required_vars \ env
           sh == IF missing_vars # {} THEN None ELSE create_search_helper(env)
       IN  /\ search_helper' = sh
           /\ IF sh = None
              THEN /\ pc' = "Exit1"
                   /\ UNCHANGED <<inflight, calls, request>>
              ELSE /\ pc' = "ScriptCreateIndex"
                   /\ inflight' = issued("create_index")
                   /\ calls' = Append(calls, "create_index")
                   /\ request' = [op |-> "create_index", index_name |-> sh[2]]
    /\ UNCHANGED << analysis, writers, write_log, env, csv_exists, index, session,
                    openai_helper, index_created, messages, user_input,
                    send_button, clear_button, batch_i, failed_docs,
                    relevant_faqs, suggestions, last, clicked, transcript0,
                    full_uploads, submitted >>

\* create_index answers; on success and with the seed file present the
\* first batch is submitted
SetupIndexCreateReturns ==
    /\ pc = "ScriptCreateIndex"
    /\ \E raises \in BOOLEAN :
        /\ last' = [op |-> "create_index", resp |-> raises]
        /\ IF create_index(raises) /\ csv_exists
           THEN /\ pc' = "ScriptUpload"
                /\ inflight' = returned("create_index") \cup {"upload"}
                /\ calls' = Append(calls, "upload")
                /\ request' = [op |-> "upload", batch |-> batch(0)]
                /\ submitted' = <<batch(0)>>
           ELSE /\ pc' = "Exit1"
                /\ inflight' = returned("create_index")
                /\ calls' = calls
                /\ request' = NoRequest
                /\ submitted' = <<>>
    /\ batch_i' = 0
    /\ failed_docs' = 0
    /\ UNCHANGED << analysis, writers, write_log, env, csv_exists, index, session,
                    search_helper, openai_helper, index_created, messages,
                    user_input, send_button, clear_button, relevant_faqs,
                    suggestions, clicked, transcript0, full_uploads >>

\* upload_documents answers for the batch at offset batch_i; after the last
\* batch the script reads the index statistics and exits
SetupIndexUploadReturns ==
    /\ pc = "ScriptUpload"
    /\ \E resp \in UploadResponses(batch(batch_i)) :
        LET failed == failed_docs + Cardinality(resp.rejected)
            next == after_batch(resp, batch_i)
        IN  /\ last' = [op |-> "upload", resp |-> resp]
            /\ index' = upload_documents(batch(batch_i), resp)
            /\ failed_docs' = failed
            /\ CASE next = "next batch" ->
                      /\ batch_i' = batch_i + batch_size
                      /\ pc' = "ScriptUpload"
                      /\ inflight' = returned("upload") \cup {"upload"}
                      /\ calls' = Append(calls, "upload")
                      /\ request' = [op |-> "upload", batch |-> batch(batch_i + batch_size)]
                      /\ submitted' = Append(submitted, batch(batch_i + batch_size))
                      /\ UNCHANGED full_uploads
                 [] next = "return True" ->
                      /\ full_uploads' = full_uploads + (IF failed = 0 THEN 1 ELSE 0)
                      /\ pc' = "Exit0"
                      /\ inflight' = returned("upload")
                      /\ calls' = Append(calls, "stats")
                      /\ request' = NoRequest
                      /\ UNCHANGED <<batch_i, submitted>>
                 [] OTHER ->
                      /\ pc' = "Exit1"
                      /\ inflight' = returned("upload")
                      /\ request' = NoRequest
                      /\ UNCHANGED <<batch_i, calls, full_uploads, submitted>>
    /\ UNCHANGED << analysis, writers, write_log, env, csv_exists, session,
                    search_helper, openai_helper, index_created, messages,
                    user_input, send_button, clear_button, relevant_faqs,
                    suggestions, clicked, transcript0 >>

NextSetupIndex ==
    \/ SetupIndexMain
    \/ SetupIndexCreateReturns
    \/ SetupIndexUploadReturns

SpecSetupIndex == InitSetupIndex /\ [][NextSetupIndex]_vars

(* --------------------- the turns of a set-up session ------------------- *)

\* a session that has set itself up over the seed documents and is at rest
InitTurn ==
    /\ env = AllVars
    /\ csv_exists = TRUE
    /\ index = [id \in {faq_id(k) : k \in RowIndex} |->
                   document(CHOOSE k \in RowIndex : faq_id(k) = id)]
    /\ session = 1
    /\ search_helper = create_search_helper(AllVars)
    /\ openai_helper = create_openai_helper(AllVars)
    /\ index_created = TRUE
    /\ user_input = <<>>
    /\ messages = <<>>
    /\ send_button = FALSE
    /\ clear_button = FALSE
    /\ pc = "Idle"
    /\ batch_i = 0
    /\ failed_docs = 0
    /\ relevant_faqs = <<>>
    /\ suggestions = <<>>
    /\ inflight = {}
    /\ calls = <<"stats">>
    /\ last = NoResponse
    /\ clicked = "rerun"
    /\ transcript0 = <<>>
    /\ full_uploads = 1
    /\ request = NoRequest
    /\ submitted = <<>>
    /\ analysis = None
    /\ writers = <<>>
    /\ write_log = <<>>

NextTurn ==
    \/ ClickSend
    \/ RunScript
    \/ RunBody
    \/ SearchReturns
    \/ GenerateReturns
    \/ SuggestReturns

\* the script, once started, runs on to its end or to its next remote call,
\* and every remote call of a turn returns or fails; the user need not click
SpecTurn ==
    /\ InitTurn /\ [][NextTurn]_vars
    /\ WF_vars(RunScript) /\ WF_vars(RunBody)
    /\ WF_vars(SearchReturns) /\ WF_vars(GenerateReturns) /\ WF_vars(SuggestReturns)

(* ------------------------- concurrent uploads -------------------------- *)

\* two sessions whose setup passes overlap
Writers == {1, 2}

\* the document as writer w prepares it: "created_at" is the writer's clock
\* reading, which tells the writers' copies apart
stamped(doc, w) ==
    [ id         |-> doc.id,
      question   |-> doc.question,
      answer     |-> doc.answer,
      tags       |-> doc.tags,
      created_at |-> w ]

\* both writers have defined the schema of the empty index and have their
\* first batch in flight
InitWriters ==
    /\ env = AllVars
    /\ csv_exists = TRUE
    /\ index = [id \in {} |-> <<>>]
    /\ session = 1
    /\ search_helper = create_search_helper(AllVars)
    /\ openai_helper = create_openai_helper(AllVars)
    /\ index_created = FALSE
    /\ user_input = <<>>
    /\ messages = <<>>
    /\ send_button = FALSE
    /\ clear_button = FALSE
    /\ pc = "Upload"
    /\ batch_i = 0
    /\ failed_docs = 0
    /\ relevant_faqs = <<>>
    /\ suggestions = <<>>
    /\ inflight = {"upload"}
    /\ calls = <<"create_index", "upload">>
    /\ last = [op |-> "create_index", resp |-> FALSE]
    /\ clicked = "load"
    /\ transcript0 = <<>>
    /\ full_uploads = 0
    /\ request = NoRequest
    /\ submitted = <<>>
    /\ analysis = None
    /\ writers = [w \in Writers |-> [pc |-> "Upload", batch_i |-> 0]]
    /\ write_log = <<>>

\* the service handles the batch writer w has in flight and answers it; the
\* writer goes on as upload_faqs_from_csv does
WriterBatchReturns(w) ==
    /\ writers[w].pc = "Upload"
    /\ LET i == writers[w].batch_i
           b == [n \in 1..Len(batch(i)) |-> stamped(batch(i)[n], w)]
       IN  \E resp \in UploadResponses(b) :
               LET next == after_batch(resp, i)
               IN  /\ index' = upload_documents(b, resp)
                   /\ write_log' = Append(write_log,
                          [ writer |-> w,
                            raises |-> resp.raises,
                            ids    |-> IF resp.raises THEN {}
                                       ELSE {b[n].id : n \in 1..Len(b)} \ resp.rejected ])
                   /\ writers' = [writers EXCEPT ![w] =
                          CASE next = "next batch" -> [pc |-> "Upload", batch_i |-> i + batch_size]
                            [] next = "return True" -> [pc |-> "True", batch_i |-> i]
                            [] OTHER -> [pc |-> "False", batch_i |-> i]]
    /\ UNCHANGED << analysis, env, csv_exists, session, search_helper, openai_helper,
                    index_created, messages, user_input, send_button,
                    clear_button, pc, batch_i, failed_docs, relevant_faqs,
                    suggestions, inflight, calls, last, clicked, transcript0,
                    full_uploads, request, submitted >>

NextWriters == \E w \in Writers : WriterBatchReturns(w)

SpecWriters == InitWriters /\ [][NextWriters]_vars

(* ----------------------- analyze_query_intent -------------------------- *)

\* queries of at most MaxQueryLen characters
Queries == SeqsUpTo({"a", "b", " "}, MaxQueryLen)

\* completion outputs of at most MaxJsonLen characters
JsonTexts == SeqsUpTo({"{", "}", "7", " "}, MaxJsonLen)

\* a set-up session at rest whose helper has just been asked to analyse a
\* query (no code path of app.py does so; the method is public)
InitIntent ==
    /\ env = AllVars
    /\ csv_exists = TRUE
    /\ index = [id \in {faq_id(k) : k \in RowIndex} |->
                   document(CHOOSE k \in RowIndex : faq_id(k) = id)]
    /\ session = 1
    /\ search_helper = create_search_helper(AllVars)
    /\ openai_helper = create_openai_helper(AllVars)
    /\ index_created = TRUE
    /\ user_input \in Queries
    /\ messages = <<>>
    /\ send_button = FALSE
    /\ clear_button = FALSE
    /\ pc = "AnalyzingIntent"
    /\ batch_i = 0
    /\ failed_docs = 0
    /\ relevant_faqs = <<>>
    /\ suggestions = <<>>
    /\ inflight = {"analyze"}
    /\ calls = <<"analyze">>
    /\ last = NoResponse
    /\ clicked = "load"
    /\ transcript0 = <<>>
    /\ full_uploads = 1
    /\ request = [op |-> "analyze", query |-> user_input]
    /\ submitted = <<>>
    /\ analysis = None
    /\ writers = <<>>
    /\ write_log = <<>>

\* the completion call of analyze_query_intent answers
AnalyzeReturns ==
    /\ pc = "AnalyzingIntent"
    /\ \E resp \in Completion(JsonTexts) :
        /\ last' = [op |-> "analyze", resp |-> resp]
        /\ analysis' = analyze_query_intent(request.query, resp)
    /\ pc' = "Analyzed"
    /\ inflight' = returned("analyze")
    /\ request' = NoRequest
    /\ UNCHANGED << env, csv_exists, index, session, search_helper, openai_helper,
                    index_created, messages, user_input, send_button,
                    clear_button, batch_i, failed_docs, relevant_faqs,
                    suggestions, calls, clicked, transcript0, full_uploads,
                    submitted, writers, write_log >>

NextIntent == AnalyzeReturns

SpecIntent == InitIntent /\ [][NextIntent]_vars

(* ---------------------------- properties ------------------------------- *)

IsUser(m) == m.role = "user"
IsTurnCall(c) == c \in {"search", "generate", "suggest"}

\* the Send event with text left after trimming has reached the turn
NonBlankSubmitted ==
    /\ clicked = "send"
    /\ strip(user_input) # <<>>
    /\ ~(send_button /\ pc \in {"Start", "Body"})

\* C1: once a submission with non-blank input is acted on, the transcript is
\* the transcript of before followed by exactly one user turn carrying the
\* input, then at most the assistant's turn, to the end of the turn and
\* whatever the search, generation and suggestion calls answered.
C1_UserTurnAppended ==
    NonBlankSubmitted =>
        /\ Len(messages) > Len(transcript0)
        /\ SubSeq(messages, 1, Len(transcript0) + 1)
             = Append(transcript0, [role |-> "user", content |-> user_input])
        /\ Len(SelectSeq(messages, IsUser)) = Len(SelectSeq(transcript0, IsUser)) + 1

\* the turn is over, generation and suggestion both failed, and the user's
\* turn (padded input kept as typed) is in the transcript
C1_Witness ==
    /\ NonBlankSubmitted
    /\ pc = "Idle"
    /\ user_input = <<" ", "q", " ">>
    /\ last.op = "suggest" /\ last.resp.raises
    /\ messages[Len(messages)].content = APOLOGY

\* C2 as stated: a Send with blank input leaves the transcript alone and
\* issues no remote call at all.
C2_NoRemoteCallAtAll ==
    (clicked = "send" /\ strip(user_input) = <<>>) =>
        /\ messages = transcript0
        /\ calls = <<>>

\* C2 amended: a Send with blank input leaves the transcript alone and
\* issues no search, generation or suggestion call (nor any setup call); the
\* one remote call of that run is the sidebar's index statistics read.
C2_NoTurnOnBlankInput ==
    (clicked = "send" /\ strip(user_input) = <<>>) =>
        /\ messages = transcript0
        /\ calls \in {<<>>, <<"stats">>}
        /\ inflight = {}
        /\ pc \in {"Start", "Body", "Idle"}

C2_Witness ==
    /\ clicked = "send"
    /\ user_input = <<" ", "\n">>
    /\ pc = "Idle"
    /\ transcript0 # <<>>
    /\ calls = <<"stats">>

\* C3: at most one remote call is in flight at any time, and the calls of
\* a turn are issued in the order search, generate, suggest, each one only
\* when the one before has returned.
C3_SequentialPipeline ==
    /\ Cardinality(inflight) <= 1
    /\ IsPrefix(SelectSeq(calls, IsTurnCall), <<"search", "generate", "suggest">>)
    /\ (pc = "Retrieving" => inflight = {"search"})
    /\ (pc = "Generating" => inflight = {"generate"} /\ last.op = "search")
    /\ (pc = "SuggestingFollowups" => inflight = {"suggest"} /\ last.op = "generate")

C3_Witness ==
    /\ pc = "SuggestingFollowups"
    /\ calls = <<"stats", "search", "generate", "suggest">>
    /\ inflight = {"suggest"}

\* C4 as stated: when the search of a turn gave no candidate, generation is
\* still called and the assistant turn it yields has a non-null answer.
C4_AnswerNonNullOnEmptySearch ==
    (clicked = "send" /\ relevant_faqs = <<>>
        /\ pc \in {"Generating", "SuggestingFollowups"}) =>
        /\ \E n \in 1..Len(calls) : calls[n] = "generate"
        /\ (pc = "SuggestingFollowups" =>
              /\ messages[Len(messages)].role = "assistant"
              /\ messages[Len(messages)].content # None)

\* C5: every step leaves the transcript of before as a prefix of the
\* transcript of after, except the step that acts on Clear Conversation,
\* which empties it (and a reload, which opens another session).
C5_AppendOnly ==
    [][ \/ IsPrefix(messages, messages')
        \/ (pc = "Body" /\ clear_button /\ messages' = <<>>)
        \/ session' # session ]_vars

\* a transcript of two whole turns was cleared
C5_Witness ==
    /\ clicked = "clear"
    /\ Len(transcript0) = 4
    /\ messages = <<>>
    /\ pc = "Idle"

\* C6: the answer appended is the apology when the completion call raised or
\* its response could not be read, and the response's content as it is
\* otherwise; either way the turn goes on to the suggestions.
C6_GenerateFailSoft ==
    last.op = "generate" =>
        /\ pc = "SuggestingFollowups"
        /\ messages[Len(messages)].role = "assistant"
        /\ messages[Len(messages)].content =
              (IF last.resp.raises \/ last.resp.choices = 0
               THEN APOLOGY ELSE last.resp.content)

\* a response without any choice was answered by the apology
C6_Witness ==
    /\ last.op = "generate"
    /\ ~last.resp.raises
    /\ last.resp.choices = 0
    /\ messages[Len(messages)].content = APOLOGY

\* C7: the candidates of a turn are empty when the search call raised, when
\* reading its results raised or when it found nothing, and are otherwise
\* the service's results, one for one in the service's order.
C7_SearchFailSoft ==
    last.op = "search" =>
        /\ pc = "Generating"
        /\ IF last.resp.raises \/ last.resp.fail_after >= 0
           THEN relevant_faqs = <<>>
           ELSE /\ Len(relevant_faqs) = Len(last.resp.results)
                /\ \A n \in 1..Len(relevant_faqs) :
                      /\ relevant_faqs[n].id = last.resp.results[n].id
                      /\ relevant_faqs[n].score = last.resp.results[n].score

\* three candidates whose scores do not descend were kept in that order
C7_Witness ==
    /\ last.op = "search"
    /\ Len(relevant_faqs) = 3
    /\ relevant_faqs[1].score < relevant_faqs[2].score

\* C8: the index never holds more documents than the seed file has rows,
\* and once an upload pass has gone through with every document accepted it
\* holds exactly one per row, however many passes follow.
C8_UploadIdempotent ==
    /\ Cardinality(DOMAIN index) <= NumRows
    /\ (full_uploads >= 1 => DOMAIN index = {<<"faq_", k>> : k \in RowIndex})

\* the file was uploaded in full twice
C8_Witness ==
    /\ full_uploads = 2
    /\ Cardinality(DOMAIN index) = NumRows

\* C9: after a batch whose submission raised, setup has stopped with
\* failure, no upload is in flight and the index is not marked created;
\* after a batch that was answered, with or without rejected documents, the
\* next batch has been submitted or the upload has reported success.
C9_PartialFailureTolerant ==
    last.op = "upload" =>
        IF last.resp.raises
        THEN pc = "Halted" /\ inflight = {} /\ ~index_created
        ELSE /\ pc # "Halted"
             /\ (pc = "Upload" =>
                   /\ inflight = {"upload"}
                   /\ Len(calls) = 2 + batch_i \div batch_size)
             /\ (pc # "Upload" => index_created)

\* every document of every batch was rejected and the upload reported success
C9_Witness ==
    /\ last.op = "upload"
    /\ failed_docs = NumRows
    /\ index_created
    /\ pc = "Body"

\* C10: the suggestions are never more than 5, and are empty when the
\* completion call raised or its response could not be read.
C10_AtMostFiveSuggestions ==
    /\ Len(suggestions) <= 5
    /\ (last.op = "suggest"
          /\ (last.resp.raises \/ last.resp.choices = 0 \/ last.resp.content = None)
        => suggestions = <<>>)

\* an output with more than five plain lines gave five suggestions
C10_Witness ==
    /\ last.op = "suggest"
    /\ last.resp.choices = 1
    /\ last.resp.content = <<"Y", "\n", "Y", "\n", "Y", "\n", "Y", "\n", "Y", "\n", "Y">>
    /\ Len(suggestions) = 5


Digits == {"0", "1", "2", "3", "4", "5", "6", "7", "8", "9"}

\* a text that begins with a digit and a period, or with a bullet
BeginsWithListMarker(s) ==
    \/ Len(s) >= 2 /\ s[1] \in Digits /\ s[2] = "."
    \/ Len(s) >= 1 /\ s[1] \in {"-", "*"}

\* the lines of an output that are not blank and begin with no list marker,
\* trimmed, in their order
RECURSIVE UnmarkedLines(_)
UnmarkedLines(lines) ==
    IF lines = <<>> THEN <<>>
    ELSE (IF strip(Head(lines)) # <<>> /\ ~BeginsWithListMarker(Head(lines))
          THEN <<strip(Head(lines))>> ELSE <<>>) \o UnmarkedLines(Tail(lines))

\* C11 as stated: of an output that could be read, no suggestion returned
\* begins with a digit-period or a bullet, and the suggestions are the
\* non-blank lines beginning with no such marker, in their order (the first
\* five of them).
C11_ListMarkersExcluded ==
    (last.op = "suggest" /\ last.resp.choices = 1 /\ last.resp.content # None) =>
        /\ \A n \in 1..Len(suggestions) : ~BeginsWithListMarker(suggestions[n])
        /\ suggestions = take(UnmarkedLines(split(last.resp.content, "\n")), 5)


\* the tags of the candidates one after another, in candidate order
RECURSIVE TagsInOrder(_)
TagsInOrder(faqs) ==
    IF faqs = <<>> THEN <<>> ELSE Head(faqs).tags \o TagsInOrder(Tail(faqs))

\* a list without the later repeats of its elements
RECURSIVE FirstOccurrences(_)
FirstOccurrences(s) ==
    IF s = <<>> THEN <<>>
    ELSE LET init == FirstOccurrences(SubSeq(s, 1, Len(s) - 1))
         IN  IF \E n \in 1..Len(init) : init[n] = s[Len(s)] THEN init
             ELSE Append(init, s[Len(s)])

Range(s) == {s[n] : n \in 1..Len(s)}

\* C12 as stated: the topics passed to suggestion generation are the first
\* 5 distinct tags encountered in candidate order.
C12_FirstFiveEncountered ==
    "suggest" \in inflight =>
        request.topics = Range(take(FirstOccurrences(TagsInOrder(relevant_faqs)), 5))

\* C12, amended: the topics passed to suggestion generation are tags of the
\* candidates, each once; all of them when there are at most 5, and otherwise
\* 5 of them, which 5 not being determined by the candidate order; for
\* candidates tagged [s, p] and [p, b] they are exactly {s, p, b}.
C12_TopicsCappedUnion ==
    "suggest" \in inflight =>
        LET all == Range(TagsInOrder(relevant_faqs))
        IN  /\ request.topics \subseteq all
            /\ Cardinality(request.topics) = (IF Cardinality(all) < 5 THEN Cardinality(all) ELSE 5)
            /\ ([n \in 1..Len(relevant_faqs) |-> relevant_faqs[n].tags]
                    = << << <<"s">>, <<"p">> >>, << <<"p">>, <<"b">> >> >>
                 => request.topics = {<<"s">>, <<"p">>, <<"b">>})

\* six distinct tags among the candidates, and the five passed on are not
\* the first five encountered
C12_Witness ==
    /\ "suggest" \in inflight
    /\ Cardinality(Range(TagsInOrder(relevant_faqs))) > 5
    /\ request.topics # Range(take(FirstOccurrences(TagsInOrder(relevant_faqs)), 5))


\* the number a text of decimal digits writes
RECURSIVE DigitsValue(_)
DigitsValue(t) ==
    IF t = <<>> THEN 0
    ELSE 10 * DigitsValue(SubSeq(t, 1, Len(t) - 1))
         + (CHOOSE d \in 0..9 : DigitChars[d + 1] = t[Len(t)])

\* t writes the score (ten-thousandths) with exactly three decimals
ShowsScore(t, score) ==
    /\ Len(t) >= 5
    /\ t[Len(t) - 3] = "."
    /\ \A n \in (1..Len(t)) \ {Len(t) - 3} : t[n] \in Range(DigitChars)
    /\ LET thousandths == DigitsValue(SubSeq(t, 1, Len(t) - 4) \o SubSeq(t, Len(t) - 2, Len(t)))
       IN  10 * thousandths - score \in -5..5

\* C13: the context sent with the generation request has one five-line block
\* per candidate, in the order of the candidates, the block of candidate i
\* carrying rank i, its score with three decimals, its question, its answer
\* and its tags joined by ", " ("No tags" when it has none); with no
\* candidate the context is empty.
C13_OneBlockPerCandidate ==
    "generate" \in inflight =>
        LET lines == split(request.context, "\n")
            head(i) == <<"FAQ ">> \o Decimal(i) \o <<" (Relevance Score: ">>
        IN  IF relevant_faqs = <<>> THEN request.context = <<>>
            ELSE /\ Len(lines) = 5 * Len(relevant_faqs)
                 /\ \A i \in 1..Len(relevant_faqs) :
                     LET faq == relevant_faqs[i]
                         line(k) == lines[5 * (i - 1) + k]
                     IN  /\ IsPrefix(head(i), line(1))
                         /\ line(1)[Len(line(1))] = "):"
                         /\ ShowsScore(SubSeq(line(1), Len(head(i)) + 1, Len(line(1)) - 1),
                                       faq.score)
                         /\ line(2) = <<"Question: ">> \o faq.question
                         /\ line(3) = <<"Answer: ">> \o faq.answer
                         /\ line(4) = <<"Tags: ">> \o (IF faq.tags = <<>> THEN <<"No tags">>
                                                        ELSE join(", ", faq.tags))
                         /\ line(5) = <<"---">>

\* a context for candidates supplied in ascending order of score, one of them
\* without tags
C13_Witness ==
    /\ "generate" \in inflight
    /\ Len(relevant_faqs) >= 2
    /\ relevant_faqs[1].score < relevant_faqs[2].score
    /\ \E i \in 1..Len(relevant_faqs) : relevant_faqs[i].tags = <<>>
    /\ request.context # <<>>


\* the positions at which a word of q begins
WordStarts(q) ==
    {i \in 1..Len(q) : q[i] \notin Whitespace /\ (i = 1 \/ q[i - 1] \in Whitespace)}

RECURSIVE Flatten(_)
Flatten(parts) == IF parts = <<>> THEN <<>> ELSE Head(parts) \o Flatten(Tail(parts))

\* kw lists the whitespace-separated words of q
IsWordsOf(kw, q) ==
    /\ Len(kw) = Cardinality(WordStarts(q))
    /\ \A k \in 1..Len(kw) : kw[k] # <<>> /\ \A n \in 1..Len(kw[k]) : kw[k][n] \notin Whitespace
    /\ Flatten(kw) = SelectSeq(q, LAMBDA c : c \notin Whitespace)

\* C14: analyze_query_intent always returns to its caller, and when the
\* completion call raised, answered without a choice, or its output does not
\* parse as JSON, what it returns is the default object: intent
\* general_inquiry, category general, complexity medium, keywords the
\* whitespace-separated words of the query.
C14_IntentFailsClosed ==
    pc = "Analyzed" =>
        /\ ~analysis.raised
        /\ (last.resp.raises \/ last.resp.choices = 0 \/ ~json_loads(last.resp.content).ok) =>
               /\ analysis.value.intent = "general_inquiry"
               /\ analysis.value.category = "general"
               /\ analysis.value.complexity = "medium"
               /\ IsWordsOf(analysis.value.keywords, user_input)

\* an output that is not JSON was answered with the default object for a
\* query of two words
C14_Witness ==
    /\ pc = "Analyzed"
    /\ ~last.resp.raises /\ last.resp.choices = 1 /\ last.resp.content # None
    /\ ~json_loads(last.resp.content).ok
    /\ ~analysis.raised
    /\ Len(analysis.value.keywords) = 2


Count(x, s) == Cardinality({n \in 1..Len(s) : s[n] = x})

\* C15: between two UI events the program issues each of create_index,
\* search, generate and suggest at most once and submits no batch twice,
\* whatever the calls answered; a setup call that failed has left the run
\* halted with nothing issued after it.
C15_NoResubmission ==
    /\ \A op \in {"create_index", "search", "generate", "suggest"} : Count(op, calls) <= 1
    /\ Count("upload", calls) <= Len(submitted)
    /\ \A i, j \in 1..Len(submitted) : i # j => submitted[i] # submitted[j]
    /\ (pc = "Halted" /\ calls # <<>>) =>
           /\ calls[Len(calls)] = last.op
           /\ inflight = {}

\* a turn whose generation call and suggestion call both failed has ended
\* with each call issued once
C15_Witness ==
    /\ pc = "Start"
    /\ last.op = "suggest" /\ last.resp.raises
    /\ messages # <<>> /\ messages[Len(messages)].content = APOLOGY
    /\ calls = <<"stats", "search", "generate", "suggest">>


\* C16, for the setup script: with a required search setting missing the
\* script fails before any remote call, and with both present (the index
\* name or the API version missing or not) the search gateway is created and
\* the script goes on to define the schema.
C16_OnlyRequiredIsFatal ==
    pc # "ScriptStart" =>
        /\ ~(SearchRequired \subseteq env) =>
               pc = "Exit1" /\ search_helper = None /\ calls = <<>>
        /\ SearchRequired \subseteq env =>
               search_helper # None /\ calls # <<>>


\* the batch answers that accepted a document under id
WritesOf(id) == {n \in 1..Len(write_log) : id \in write_log[n].ids}

\* the ids the service accepted from writer w
AcceptedFrom(w) == UNION {write_log[n].ids : n \in {m \in 1..Len(write_log) : write_log[m].writer = w}}

\* C17: with two writers uploading to the same index, however their batch
\* submissions interleave, the index holds exactly one document under every
\* id that was accepted, and it is the copy of the writer whose accepted
\* write of that id came last; while the writers' accepted ids are disjoint
\* every accepted document is its own writer's copy; and a writer's upload
\* reports failure only when one of its own submissions raised.
C17_LastWriteWins ==
    /\ DOMAIN index = {id \in {faq_id(k) : k \in RowIndex} : WritesOf(id) # {}}
    /\ \A id \in DOMAIN index :
           LET n == CHOOSE n \in WritesOf(id) : \A m \in WritesOf(id) : m <= n
           IN  index[id].id = id /\ index[id].created_at = write_log[n].writer
    /\ AcceptedFrom(1) \cap AcceptedFrom(2) = {} =>
           \A w \in Writers : \A id \in AcceptedFrom(w) : index[id].created_at = w
    /\ \A w \in Writers :
           writers[w].pc = "False" <=>
               \E n \in 1..Len(write_log) : write_log[n].writer = w /\ write_log[n].raises

\* both uploads reported success over the same ids, and the index ends with
\* a copy of each writer
C17_Witness ==
    /\ \A w \in Writers : writers[w].pc = "True"
    /\ AcceptedFrom(1) = AcceptedFrom(2)
    /\ \E id1, id2 \in DOMAIN index : index[id1].created_at = 1 /\ index[id2].created_at = 2


\* C18: a turn goes from Retrieving to Generating to SuggestingFollowups and
\* from there, through the rerun of the script, back to Idle, entering each
\* only from the one before it; and every turn that has started ends at
\* Idle, whatever the three calls answered.
C18_TurnReturnsToIdle ==
    /\ [][/\ pc = "Retrieving" => pc' = "Generating"
          /\ pc = "Generating" => pc' = "SuggestingFollowups"
          /\ pc = "SuggestingFollowups" => pc' = "Start"
          /\ pc' = "Retrieving" => pc = "Body"
          /\ pc' = "Generating" => pc = "Retrieving"
          /\ pc' = "SuggestingFollowups" => pc = "Generating"
          /\ (pc' = "Idle" /\ Count("search", calls') = 1) =>
                 calls' = <<"stats", "search", "generate", "suggest", "stats">>]_vars
    /\ (pc = "Retrieving") ~> (pc = "Idle")

\* a turn whose search, generation call and suggestion call all failed is
\* back at Idle
C18_Witness ==
    /\ pc = "Idle"
    /\ calls = <<"stats", "search", "generate", "suggest", "stats">>
    /\ last.op = "suggest" /\ last.resp.raises
    /\ messages[Len(messages)].content = APOLOGY


\* C19: in a session of the application, a batch is submitted only after
\* create_index succeeded in the same run or after the batch before it was
\* answered; index_created turns true only on the answer to the last batch
\* of a pass whose create_index succeeded; a failed create_index halts the
\* run with nothing submitted; and once index_created is true it stays true
\* and the session issues neither create_index nor an upload again.
C19_StagedSetupOnce ==
    [][/\ Count("upload", calls') > Count("upload", calls) =>
              \/ pc = "CreateIndex" /\ last'.op = "create_index" /\ last'.resp = FALSE
              \/ pc = "Upload" /\ last'.op = "upload" /\ ~last'.resp.raises
       /\ (index_created' /\ ~index_created) =>
              /\ pc = "Upload" /\ last'.op = "upload" /\ ~last'.resp.raises
              /\ Count("create_index", calls) = 1
              /\ Flatten(submitted) = documents
       /\ (pc = "CreateIndex" /\ last'.op = "create_index" /\ last'.resp = TRUE) =>
              pc' = "Halted" /\ Count("upload", calls') = 0 /\ index' = index
       /\ (index_created /\ session' = session) =>
              /\ index_created'
              /\ Count("create_index", calls') <= Count("create_index", calls)
              /\ Count("upload", calls') <= Count("upload", calls)
              /\ index' = index]_vars

\* a set-up session has run its script again and has issued nothing but the
\* statistics read
C19_Witness ==
    /\ index_created
    /\ clicked = "rerun"
    /\ pc = "Idle"
    /\ calls = <<"stats">>

\* C20: the batches submitted in a pass are consecutive slices of the
\* documents of at most batch_size each, in source order; a pass none of
\* whose submissions raised has submitted every document exactly once; when
\* a submission raises the index is left as the earlier batches made it,
\* the pass ends and no further batch is submitted.
C20_ConsecutiveBatches ==
    /\ [](/\ \A k \in 1..Len(submitted) :
                  Len(submitted[k]) >= 1 /\ Len(submitted[k]) <= batch_size
          /\ IsPrefix(Flatten(submitted), documents)
          /\ \A k \in 1..(Len(submitted) - 1) : Len(submitted[k]) = batch_size
          /\ (pc = "Body" /\ calls # <<>> /\ calls[Len(calls)] = "upload") =>
                 Flatten(submitted) = documents
          /\ (pc = "Halted" /\ last.op = "upload" /\ failed_docs = 0) =>
                 \A k \in 1..(Len(submitted) - 1) : \A n \in 1..Len(submitted[k]) :
                     /\ submitted[k][n].id \in DOMAIN index
                     /\ index[submitted[k][n].id] = submitted[k][n])
    /\ [][(pc = "Upload" /\ last'.op = "upload" /\ last'.resp.raises) =>
              /\ index' = index
              /\ submitted' = submitted
              /\ calls' = calls
              /\ pc' = "Halted"]_vars

\* the second batch raised: the first stays in the index, the pass is over
C20_Witness ==
    /\ pc = "Halted"
    /\ last.op = "upload" /\ last.resp.raises
    /\ Len(submitted) = 2
    /\ failed_docs = 0
    /\ \A n \in 1..Len(submitted[1]) : submitted[1][n].id \in DOMAIN index


IsAssistant(m) == m.role = "assistant"

\* the roles of a transcript, in order
Roles(msgs) == [n \in 1..Len(msgs) |-> msgs[n].role]

\* C21: the transcript is empty or starts with a user turn, every assistant
\* turn comes right after a user turn, there are no more assistant turns
\* than user turns, and what a Send event has added to the transcript so
\* far is nothing, the user's turn, or the user's turn and one assistant
\* turn after it.
C21_TranscriptWellFormed ==
    /\ messages = <<>> \/ messages[1].role = "user"
    /\ \A n \in 1..Len(messages) :
           messages[n].role = "assistant" => (n > 1 /\ messages[n - 1].role = "user")
    /\ Len(SelectSeq(messages, IsAssistant)) <= Len(SelectSeq(messages, IsUser))
    /\ clicked = "send" =>
           /\ IsPrefix(transcript0, messages)
           /\ Roles(SubSeq(messages, Len(transcript0) + 1, Len(messages)))
                  \in {<<>>, <<"user">>, <<"user", "assistant">>}
    /\ clicked # "send" => (messages = transcript0 \/ messages = <<>>)

\* a turn whose generation call failed, then a second whole turn
C21_Witness ==
    /\ clicked = "send"
    /\ Len(transcript0) = 2
    /\ Len(messages) = 4
    /\ messages[2].content = APOLOGY
    /\ pc = "Idle"

====
